---- MODULE Spec2Model ----
(***************************************************************************)
(* Model of hacksphere/app.py: the diode physics engine (DiodePhysics),    *)
(* the /api/measure and /api/sweep handlers, and the mystery-mode handlers *)
(* /api/start_mystery and /api/submit_guess with their process-wide slot   *)
(* current_mystery.                                                        *)
(*                                                                         *)
(* Numbers.  JSON numbers, voltages and temperatures are integers counted  *)
(* in thousandths (mV, millidegrees).  A sweep voltage is the exact rational        *)
(* [num, den] in mV.  A current or a power is a decimal float [m, e],      *)
(* meaning m * 10^e, with a four digit mantissa: the arithmetic of the     *)
(* source (IEEE doubles, np.exp) is modelled at that reduced precision,    *)
(* with every intermediate value kept inside 32 bit integers.              *)
(***************************************************************************)
EXTENDS Integers, Sequences, FiniteSets, TLC

VARIABLES
    current_mystery,   \* the global slot of app.py:119
    req,               \* the HTTP request being handled, or the last handled
    resp,              \* the response to req; NoResp while req is pending
    th,                \* concurrent callers: position and locals of each
    lastWrite,         \* history: the value of the latest store to the slot
    calls              \* history: the number of calls the callers have begun

vars == <<current_mystery, req, resp, th, lastWrite, calls>>

-----------------------------------------------------------------------------
(* Decimal floats                                                          *)

IAbs(a) == IF a < 0 THEN -a ELSE a
ISgn(a) == IF a < 0 THEN -1 ELSE IF a > 0 THEN 1 ELSE 0
\* integer quotient rounded toward zero
Quot(a, b) == ISgn(a) * (IAbs(a) \div b)

FZero == [m |-> 0, e |-> 0]

RECURSIVE Norm(_, _)
\* the float m * 10^e with its mantissa brought to four digits
Norm(m, e) ==
    IF m = 0 THEN FZero
    ELSE IF IAbs(m) >= 10000 THEN Norm(Quot(m, 10), e + 1)
    ELSE IF IAbs(m) < 1000 THEN Norm(m * 10, e - 1)
    ELSE [m |-> m, e |-> e]

FNeg(a) == [m |-> -a.m, e |-> a.e]
FAbs(a) == [m |-> IAbs(a.m), e |-> a.e]
FMul(a, b) == Norm(a.m * b.m, a.e + b.e)
FAdd(a, b) ==
    IF a.m = 0 THEN b
    ELSE IF b.m = 0 THEN a
    ELSE IF a.e >= b.e
         THEN IF a.e - b.e > 5 THEN a
              ELSE Norm(a.m * 10^(a.e - b.e) + b.m, b.e)
         ELSE IF b.e - a.e > 5 THEN b
              ELSE Norm(b.m * 10^(b.e - a.e) + a.m, a.e)
FSub(a, b) == FAdd(a, FNeg(b))
FLe(a, b) == FSub(a, b).m <= 0
FLt(a, b) == FSub(a, b).m < 0

RECURSIVE FromRatPos(_, _, _)
FromRatPos(a, q, e) ==
    IF a = 0 THEN FZero
    ELSE IF a \div q >= 1000 THEN Norm(a \div q, e)
    ELSE FromRatPos(a * 10, q, e - 1)
\* the float nearest below (p / q) * 10^e, for q > 0
FromRat(p, q, e) ==
    LET f == FromRatPos(IAbs(p), q, e) IN IF p < 0 THEN FNeg(f) ELSE f

RECURSIVE ScaledFrac(_, _, _)
\* floor(r * 10^k / d) for 0 <= r < d, one decimal digit at a time
ScaledFrac(r, d, k) ==
    IF k = 0 THEN 0
    ELSE ((r * 10) \div d) * 10^(k - 1) + ScaledFrac((r * 10) % d, d, k - 1)

\* floor(a * b / 1000) without forming a * b, for b < 2^31 / 1000
MulMilli(a, b) == (a \div 1000) * b + ((a % 1000) * b) \div 1000

\* 10^(d/10) for d = 0..9, in thousandths
Pow10Tab == <<1000, 1259, 1585, 1995, 2512, 3162, 3981, 5012, 6310, 7943>>

RECURSIVE Taylor(_, _, _)
\* sum of the series terms z^j / j! for j >= k, given the k-th term t,
\* z in 1e-4 units and terms in 1e-5 units
Taylor(t, z, k) ==
    IF t = 0 \/ k > 6 THEN 0 ELSE t + Taylor((t * z) \div (10000 * k), z, k + 1)

\* 10^(y / 100000) as a float
Pow10(y) ==
    LET E == y \div 100000
        f == y % 100000
        d == f \div 10000
        z == ((f % 10000) * 23026) \div 100000
    IN  Norm(Pow10Tab[d + 1] * (Taylor(100000, z, 1) \div 10), E - 7)

\* np.exp of x given in thousandths: e^x = 10^(x * log10 e)
Exp(x) == Pow10(ISgn(x) * MulMilli(IAbs(x), 43429))

-----------------------------------------------------------------------------
(* JSON values and Python's float()                                        *)

PyNone == "None"
Absent == [t |-> "absent"]
JNull == [t |-> "null"]
JNum(v) == [t |-> "num", v |-> v]      \* a JSON number, in thousandths
JStr(s) == [t |-> "str", s |-> s]      \* a JSON string in a text field
JChars(s) == [t |-> "chars", s |-> s]  \* a JSON string in a numeric field,
                                       \* given one character at a time

\* dict.get(key, default): the default only when the key is absent
Get(data, key, default) == IF data[key] = Absent THEN default ELSE data[key]

Raise(exc) == [ok |-> FALSE, exc |-> exc]
Return(val) == [ok |-> TRUE, val |-> val]

DigitChars == <<"0", "1", "2", "3", "4", "5", "6", "7", "8", "9">>
IsDigit(c) == \E k \in 1..10 : DigitChars[k] = c
DigitVal(c) == (CHOOSE k \in 1..10 : DigitChars[k] = c) - 1

RECURSIVE ParseDigits(_, _, _, _)
\* reads s from position k: acc is the value so far in thousandths, place the
\* weight of the next digit (1000 on the left of the point, then 100, 10, 1, 0);
\* a second point or any other character is a ValueError
ParseDigits(s, k, acc, place) ==
    IF k > Len(s) THEN Return(acc)
    ELSE IF IsDigit(s[k])
         THEN IF place = 1000
              THEN ParseDigits(s, k + 1, acc * 10 + 1000 * DigitVal(s[k]), 1000)
              ELSE ParseDigits(s, k + 1, acc + place * DigitVal(s[k]), place \div 10)
    ELSE IF s[k] = "." /\ place = 1000 THEN ParseDigits(s, k + 1, acc, 100)
    ELSE Raise("ValueError")

\* float(str): [sign] digits [. digits], at least one digit
ParseFloat(s) ==
    LET signed == Len(s) > 0 /\ s[1] \in {"-", "+"}
        body == IF signed THEN SubSeq(s, 2, Len(s)) ELSE s
        r == ParseDigits(body, 1, 0, 1000)
    IN  IF ~(\E k \in 1..Len(body) : IsDigit(body[k])) THEN Raise("ValueError")
        ELSE IF r.ok /\ signed /\ s[1] = "-" THEN Return(-r.val)
        ELSE r

\* the Python value of a JSON text field: the string, or None for null
PyText(x) == IF x.t = "str" THEN x.s ELSE PyNone

\* float(x) of a JSON value
PyFloat(x) ==
    IF x.t = "num" THEN Return(x.v)
    ELSE IF x.t = "chars" THEN ParseFloat(x.s)
    ELSE Raise("TypeError")

-----------------------------------------------------------------------------
(* PHYSICS ENGINE                                                          *)

\* BOLTZMANN_K / ELECTRON_Q in nV per kelvin
K_OVER_Q == 86173

Materials == {"Si", "Ge", "RedLED", "BlueLED", "Zener"}

\* 2 ** ((temp_c - 27) / 10.0) = 10^((temp_c - 27) * log10(2) / 10)
TempScale(temp_c) == Pow10(MulMilli(temp_c - 27000, 3010))

\* Is = base * 2 ** ((temp_c - 27) / 10.0), base = 10^baseExp
ScaledIs(baseExp, temp_c) == FMul([m |-> 1000, e |-> baseExp - 3], TempScale(temp_c))

\* the default of zener_v, in mV
ZENER_V == 5100

\* DiodePhysics.__init__: the attributes of the new object.  n is held
\* doubled (n2), slope in tenths (slope10), breakdown in mV, vt in nV.
\* An unrecognized material takes no branch: Is and n are never assigned.
DiodePhysics(material, temp_c, zener_v) ==
    LET temp_k == temp_c + 273150
        base == [temp_k |-> temp_k,
                 vt |-> MulMilli(temp_k, K_OVER_Q),
                 breakdown |-> -50000,
                 slope10 |-> 100]
    IN  IF material = "Si"
        THEN base @@ [Is |-> ScaledIs(-12, temp_c), n2 |-> 3]
        ELSE IF material = "Ge"
        THEN [base EXCEPT !.breakdown = -20000]
                 @@ [Is |-> ScaledIs(-6, temp_c), n2 |-> 2]
        ELSE IF material = "RedLED"
        THEN [base EXCEPT !.breakdown = -5000]
                 @@ [Is |-> [m |-> 1000, e |-> -21], n2 |-> 4]
        ELSE IF material = "BlueLED"
        THEN [base EXCEPT !.breakdown = -5000]
                 @@ [Is |-> [m |-> 1000, e |-> -27], n2 |-> 7]
        ELSE IF material = "Zener"
        THEN [base EXCEPT !.breakdown = -zener_v, !.slope10 = 5]
                 @@ [Is |-> ScaledIs(-12, temp_c), n2 |-> 3]
        ELSE base

\* np.clip(v / (self.n * self.vt), -50, 50), in thousandths
Exponent(sim, v) ==
    LET d == v.den * sim.n2 * (sim.vt \div 1000)
        a == IAbs(v.num)
    IN  IF 40 * a >= d THEN ISgn(v.num) * 50000
        ELSE ISgn(v.num) * ScaledFrac(2 * a, d, 6)

\* the condition of np.where written with <=
InBreakdownInclusive(sim, v) == v.num <= sim.breakdown * v.den

\* v < self.breakdown, the condition of np.where
InBreakdown(sim, v) == v.num < sim.breakdown * v.den

\* self.Is * (np.exp(exponent) - 1)
Shockley(sim, v) == FMul(sim.Is, FSub(Exp(Exponent(sim, v)), [m |-> 1000, e |-> -3]))

\* -self.slope * (np.abs(v) - np.abs(self.breakdown))
Breakdown(sim, v) ==
    FromRat(-sim.slope10 * (IAbs(v.num) - IAbs(sim.breakdown) * v.den), 10 * v.den, -3)

\* DiodePhysics.compute at one voltage; reading self.n or self.Is of an object
\* that has none is an AttributeError
compute(sim, v) ==
    IF "n2" \notin DOMAIN sim \/ "Is" \notin DOMAIN sim THEN Raise("AttributeError")
    ELSE Return(IF InBreakdown(sim, v) THEN Breakdown(sim, v) ELSE Shockley(sim, v))

-----------------------------------------------------------------------------
(* ROUTES                                                                  *)

\* np.random.uniform(-0.005, 0.005): the draws the model takes, as floats
NoiseDraws ==
    {[m |-> -5000, e |-> -6], [m |-> -2000, e |-> -6], FZero,
     [m |-> 3000, e |-> -6], [m |-> 4999, e |-> -6]}

Volt(num, den) == [num |-> num, den |-> den]
\* a voltage as a float, in volts
VoltF(v) == FromRat(v.num, v.den, -3)

\* the limit without the LED case
LimitSame(mat) == [m |-> 5000, e |-> -4]

\* limit = 0.5; if mat in ['RedLED', 'BlueLED']: limit = 0.05
Limit(mat) ==
    IF mat \in {"RedLED", "BlueLED"} THEN [m |-> 5000, e |-> -5]
    ELSE [m |-> 5000, e |-> -4]

\* "OPTIMAL" if abs(power) <= limit else "BURNT (Overheat)"
Status(power, limit) ==
    IF FLe(FAbs(power), limit) THEN "OPTIMAL" ELSE "BURNT (Overheat)"

\* the body of measure(): the JSON it returns, or the exception it raises
measure(data, noise) ==
    LET mat == PyText(Get(data, "material", JStr("Si")))
        temp == PyFloat(Get(data, "temp", JNum(27000)))
        v == PyFloat(Get(data, "voltage", JNum(0)))
    IN  IF ~temp.ok THEN temp
        ELSE IF ~v.ok THEN v
        ELSE LET sim == DiodePhysics(mat, temp.val, ZENER_V)
                 i == compute(sim, Volt(v.val, 1))
             IN  IF ~i.ok THEN i
                 ELSE LET final_i == FAdd(i.val, FMul(i.val, noise))
                          power == FMul(VoltF(Volt(v.val, 1)), final_i)
                      IN  Return([voltage |-> v.val,
                                  current |-> final_i,
                                  power |-> power,
                                  status |-> Status(power, Limit(mat)),
                                  saturation |-> sim.Is,
                                  breakdown |-> sim.breakdown])

\* the number of points of the sweep
NUM_POINTS == 300

\* np.linspace with endpoint=False: step = (end - start) / 300
linspaceOpen(start, end) ==
    [k \in 1..NUM_POINTS |->
        Volt(NUM_POINTS * start + (k - 1) * (end - start), NUM_POINTS)]

\* np.linspace(start, end, 300): start + k * step with step = (end - start) / 299,
\* the last sample set to end; sample k (from 1) as an exact fraction of mV
linspace(start, end) ==
    [k \in 1..NUM_POINTS |->
        Volt((NUM_POINTS - 1) * start + (k - 1) * (end - start), NUM_POINTS - 1)]

\* round(v, 3): to the nearest mV, a half to the even neighbour
round3(v) ==
    LET q == v.num \div v.den
        r == v.num % v.den
    IN  IF 2 * r < v.den THEN q
        ELSE IF 2 * r > v.den THEN q + 1
        ELSE IF q % 2 = 0 THEN q ELSE q + 1

\* the threshold without the Ge case
ThresholdSame(mat) == [m |-> 1000, e |-> -6]

\* threshold = 0.001; if mat == 'Ge': threshold = 0.0005
Threshold(mat) ==
    IF mat = "Ge" THEN [m |-> 5000, e |-> -7] ELSE [m |-> 1000, e |-> -6]

RECURSIVE ArgMinIn(_, _, _)
\* numpy's argmin over a[lo..hi]: the index of the first occurrence of the
\* minimum.  Of the two halves the right one wins only when strictly smaller.
ArgMinIn(a, lo, hi) ==
    IF lo = hi THEN lo
    ELSE LET mid == (lo + hi) \div 2
             l == ArgMinIn(a, lo, mid)
             r == ArgMinIn(a, mid + 1, hi)
         IN  IF FLt(a[r], a[l]) THEN r ELSE l

argmin(a) == ArgMinIn(a, 1, Len(a))

\* the body of sweep()
sweep(data) ==
    LET mat == PyText(Get(data, "material", JStr("Si")))
        start == PyFloat(Get(data, "start", JNum(-2000)))
        end == PyFloat(Get(data, "end", JNum(1500)))
        temp == PyFloat(Get(data, "temp", JNum(27000)))
    IN  IF ~start.ok THEN start
        ELSE IF ~end.ok THEN end
        ELSE IF ~temp.ok THEN temp
        ELSE LET sim == DiodePhysics(mat, temp.val, ZENER_V)
                 voltages == linspace(start.val, end.val)
             IN  IF ~compute(sim, voltages[1]).ok THEN compute(sim, voltages[1])
                 ELSE LET currents == [k \in 1..NUM_POINTS |-> compute(sim, voltages[k]).val]
                          results == [k \in 1..NUM_POINTS |->
                                         [v |-> round3(voltages[k]),
                                          i |-> currents[k],
                                          p |-> FMul(VoltF(voltages[k]), currents[k])]]
                          threshold == Threshold(mat)
                          idx == argmin([k \in 1..NUM_POINTS |->
                                            FAbs(FSub(currents[k], threshold))])
                      IN  Return([data |-> results,
                                  saddle |-> [v |-> round3(voltages[idx]),
                                              i |-> currents[idx]],
                                  saturation |-> sim.Is,
                                  breakdown |-> sim.breakdown])

\* options = ['Si', 'Ge', 'RedLED', 'BlueLED', 'Zener']
options == <<"Si", "Ge", "RedLED", "BlueLED", "Zener">>

\* a store that keeps a value already in the slot
StoredIfUnset(slot, choice) == IF slot = PyNone THEN choice ELSE slot

\* current_mystery = random.choice(options): the value the slot takes
Stored(slot, choice) == choice

\* user_guess == current_mystery, on the value read from the slot
Compare(user_guess, mystery) == user_guess = mystery

\* a reply that reveals the material only to a correct guess
ReplyHiding(correct, mystery) ==
    IF correct THEN [result |-> "CORRECT", actual |-> mystery]
    ELSE [result |-> "WRONG", actual |-> PyNone]

\* the JSON of the branch taken, "actual" being the slot as read on that line
Reply(correct, mystery) ==
    IF correct THEN [result |-> "CORRECT", actual |-> mystery]
    ELSE [result |-> "WRONG", actual |-> mystery]

\* the body of submit_guess() when nothing runs between its two reads of the
\* slot
submit_guess(data, mystery) ==
    Return(Reply(Compare(PyText(data.guess), mystery), mystery))

-----------------------------------------------------------------------------
(* Requests, one at a time                                                 *)

NoReq == [op |-> "none"]
NoResp == [code |-> 0]

\* what Flask sends for a view's outcome: the JSON with 200, or, for an
\* exception that leaves the view, 500 Internal Server Error
Respond(r) ==
    IF r.ok THEN [code |-> 200, body |-> r.val]
    ELSE [code |-> 500, exc |-> r.exc]

MaterialInputs == {Absent, JStr("Cu")} \cup {JStr(options[k]) : k \in 1..Len(options)}
TempInputs == {Absent, JNum(127000), JNum(22500), JChars(<<"h", "o", "t">>), JNull}
VoltageInputs ==
    {Absent, JNum(700), JNum(-6000), JNum(-5100), JNum(-5000), JNum(-20000),
     JNum(-50000), JNum(-50001), JNum(2000), JChars(<<"0", ".", "7">>),
     JChars(<<"-", "6">>), JChars(<<"1", ".", "2", ".", "3">>), JChars(<<>>)}
StartInputs ==
    {Absent, JNum(-50000), JNum(-20000), JNum(-6000), JNum(-5100), JNum(0),
     JChars(<<"a">>)}
EndInputs == {Absent, JNum(-5000), JNum(0), JNull}
SweepTempInputs == {JNum(127000), JChars(<<"h", "o", "t">>)}
GuessInputs == MaterialInputs \cup {JNull}

Requests ==
    {[op |-> "measure", data |-> d] :
        d \in [material : MaterialInputs, temp : TempInputs, voltage : VoltageInputs]}
    \cup {[op |-> "sweep", data |-> d] :
        d \in [material : MaterialInputs, start : StartInputs, end : EndInputs,
               temp : {Absent}]
              \cup [material : MaterialInputs, start : {Absent}, end : {Absent},
                    temp : SweepTempInputs]}
    \cup {[op |-> "submit_guess", data |-> d] : d \in [guess : GuessInputs]}
    \cup {[op |-> "start_mystery"]}

Pending == req.op # "none" /\ resp.code = 0

Init ==
    /\ current_mystery = PyNone
    /\ req = NoReq
    /\ resp = NoResp
    /\ th = <<>>
    /\ lastWrite = PyNone
    /\ calls = 0

\* a client sends the next request
Request ==
    /\ req.op = "none"
    /\ req' \in Requests
    /\ resp' = NoResp
    /\ UNCHANGED <<current_mystery, th, lastWrite, calls>>

Measure ==
    /\ Pending /\ req.op = "measure"
    /\ \E noise \in NoiseDraws : resp' = Respond(measure(req.data, noise))
    /\ UNCHANGED <<current_mystery, req, th, lastWrite, calls>>

Sweep ==
    /\ Pending /\ req.op = "sweep"
    /\ resp' = Respond(sweep(req.data))
    /\ UNCHANGED <<current_mystery, req, th, lastWrite, calls>>

\* current_mystery = random.choice(options)
StartMystery ==
    /\ Pending /\ req.op = "start_mystery"
    /\ \E k \in 1..Len(options) : current_mystery' = Stored(current_mystery, options[k])
    /\ resp' = Respond(Return([status |-> "Mystery Mode Started"]))
    /\ UNCHANGED <<req, th, lastWrite, calls>>

\* a submit_guess that ends the game it answers
SubmitGuessClearing ==
    /\ Pending /\ req.op = "submit_guess"
    /\ resp' = Respond(submit_guess(req.data, current_mystery))
    /\ current_mystery' = PyNone
    /\ UNCHANGED <<req, th, lastWrite, calls>>

SubmitGuess ==
    /\ Pending /\ req.op = "submit_guess"
    /\ resp' = Respond(submit_guess(req.data, current_mystery))
    /\ UNCHANGED <<current_mystery, req, th, lastWrite, calls>>

\* the response is delivered and the exchange is over
Deliver ==
    /\ resp.code # 0
    /\ req' = NoReq
    /\ resp' = NoResp
    /\ UNCHANGED <<current_mystery, th, lastWrite, calls>>

Next == Request \/ Deliver \/ Measure \/ Sweep \/ StartMystery \/ SubmitGuess

Spec == Init /\ [][Next]_vars

-----------------------------------------------------------------------------
(* Concurrent callers of the mystery routes.  Each read and each store of  *)
(* the global is one step; callers interleave between steps.               *)

\* the number of concurrent callers, and of calls they make in all
NumCallers == 2
MaxCalls == 3

Callers == 1..NumCallers

\* the guesses the concurrent callers submit
ConcGuessInputs == {JStr("Si"), JStr("Zener"), JNull}

Idle == [pc |-> "idle", choice |-> PyNone, guess |-> PyNone,
         correct |-> FALSE, seen |-> {}, ret |-> [result |-> "", actual |-> PyNone]]

InitConc ==
    /\ current_mystery = PyNone
    /\ req = NoReq
    /\ resp = NoResp
    /\ th = [t \in Callers |-> Idle]
    /\ lastWrite = PyNone
    /\ calls = 0

\* a store to the slot is seen by every submit_guess in flight
Observe(t, value) ==
    IF th[t].pc \in {"sg_compare", "sg_return"}
    THEN [th[t] EXCEPT !.seen = @ \cup {value}]
    ELSE th[t]

\* start_mystery, line 124, right-hand side: random.choice(options)
SmChoose(t) ==
    /\ th[t].pc = "idle" /\ calls < MaxCalls
    /\ \E k \in 1..Len(options) :
          th' = [th EXCEPT ![t] = [@ EXCEPT !.pc = "sm_store", !.choice = options[k]]]
    /\ calls' = calls + 1
    /\ UNCHANGED <<current_mystery, req, resp, lastWrite>>

\* start_mystery, line 124, the store to the global; then the return
SmStore(t) ==
    /\ th[t].pc = "sm_store"
    /\ current_mystery' = Stored(current_mystery, th[t].choice)
    /\ lastWrite' = th[t].choice
    /\ th' = [u \in Callers |->
                IF u = t THEN [th[t] EXCEPT !.pc = "idle", !.choice = PyNone]
                ELSE Observe(u, Stored(current_mystery, th[t].choice))]
    /\ UNCHANGED <<req, resp, calls>>

\* submit_guess, line 130: the call begins and reads its guess
SgBegin(t) ==
    /\ th[t].pc = "idle" /\ calls < MaxCalls
    /\ \E g \in ConcGuessInputs :
          th' = [th EXCEPT ![t] = [@ EXCEPT !.pc = "sg_compare",
                                              !.guess = PyText(g),
                                              !.seen = {current_mystery}]]
    /\ calls' = calls + 1
    /\ UNCHANGED <<current_mystery, req, resp, lastWrite>>

\* submit_guess, line 131: reads the slot and compares
SgCompare(t) ==
    /\ th[t].pc = "sg_compare"
    /\ th' = [th EXCEPT ![t] = [@ EXCEPT !.pc = "sg_return",
                                        !.correct = Compare(th[t].guess, current_mystery)]]
    /\ UNCHANGED <<current_mystery, req, resp, lastWrite, calls>>

\* submit_guess, line 132 or 134: reads the slot again for "actual"
SgReturn(t) ==
    /\ th[t].pc = "sg_return"
    /\ th' = [th EXCEPT ![t] = [@ EXCEPT !.pc = "idle",
                                        !.ret = Reply(th[t].correct, current_mystery)]]
    /\ UNCHANGED <<current_mystery, req, resp, lastWrite, calls>>

NextConc ==
    \E t \in Callers :
        SmChoose(t) \/ SmStore(t) \/ SgBegin(t) \/ SgCompare(t) \/ SgReturn(t)

SpecConc == InitConc /\ [][NextConc]_vars

-----------------------------------------------------------------------------
(* Properties                                                              *)

Handled(op) == req.op = op /\ resp.code # 0
MeasureOk == req.op = "measure" /\ resp.code = 200
SweepOk == req.op = "sweep" /\ resp.code = 200

\* a structured failure of the given kind, returned rather than thrown
IsFailure(r, kind) ==
    /\ r.code \notin {0, 200, 500}
    /\ "error" \in DOMAIN r
    /\ r.error = kind

ReqMaterial == PyText(Get(req.data, "material", JStr("Si")))
ReqTemp == PyFloat(Get(req.data, "temp", JNum(27000)))
ReqVoltage == PyFloat(Get(req.data, "voltage", JNum(0)))
ReqStart == PyFloat(Get(req.data, "start", JNum(-2000)))
ReqEnd == PyFloat(Get(req.data, "end", JNum(1500)))

\* every numeric field of the request, given or defaulted, is a number
AllNumeric ==
    IF req.op = "measure" THEN ReqTemp.ok /\ ReqVoltage.ok
    ELSE ReqStart.ok /\ ReqEnd.ok /\ ReqTemp.ok

\* C1: a submit_guess handled while the mystery slot is unset fails with
\* NoActiveGame, whatever the guess; it returns neither CORRECT nor WRONG.
C1_NoActiveGame ==
    (Handled("submit_guess") /\ current_mystery = PyNone)
        => IsFailure(resp, "NoActiveGame")

\* C2: a measure or sweep whose material is not one of the five fails with
\* InvalidMaterial (its numeric fields being numbers).
C2_InvalidMaterial ==
    ((Handled("measure") \/ Handled("sweep")) /\ AllNumeric
        /\ ReqMaterial \notin Materials)
        => IsFailure(resp, "InvalidMaterial")

\* C3: once the slot is set, submit_guess(g) answers CORRECT exactly when g
\* is the stored material and WRONG otherwise, and "actual" is the stored
\* material either way.
C3_GuessResult ==
    (Handled("submit_guess") /\ current_mystery # PyNone)
        => /\ resp.code = 200
           /\ resp.body.result \in {"CORRECT", "WRONG"}
           /\ resp.body.result = "CORRECT" <=> PyText(req.data.guess) = current_mystery
           /\ resp.body.actual = current_mystery

C3_Witness ==
    /\ Handled("submit_guess") /\ current_mystery # PyNone
    /\ resp.body.result = "WRONG"
    /\ PyText(req.data.guess) \in Materials

Ascending(data) == \A k \in 1..(Len(data) - 1) : data[k].v < data[k + 1].v
NonDecreasing(data) == \A k \in 1..(Len(data) - 1) : data[k].v <= data[k + 1].v
NonIncreasing(data) == \A k \in 1..(Len(data) - 1) : data[k].v >= data[k + 1].v

\* C4 as stated: every sweep returns 300 entries from start to end whose
\* rounded voltages are strictly ascending.
C4_Original ==
    SweepOk => /\ Len(resp.body.data) = 300
               /\ resp.body.data[1].v = ReqStart.val
               /\ resp.body.data[300].v = ReqEnd.val
               /\ Ascending(resp.body.data)

\* C4 amended: every sweep returns 300 entries, the first at start and the
\* last at end; the rounded voltages never decrease when start <= end, never
\* increase when start >= end, and are strictly ascending when end - start
\* is at least 0.3 V.
C4_SweepShape ==
    SweepOk => /\ Len(resp.body.data) = 300
               /\ resp.body.data[1].v = ReqStart.val
               /\ resp.body.data[300].v = ReqEnd.val
               /\ ReqStart.val <= ReqEnd.val => NonDecreasing(resp.body.data)
               /\ ReqStart.val >= ReqEnd.val => NonIncreasing(resp.body.data)
               /\ ReqEnd.val - ReqStart.val >= 300 => Ascending(resp.body.data)

C4_Witness ==
    /\ SweepOk
    /\ ReqEnd.val - ReqStart.val >= 300
    /\ ReqStart.val # -2000
    /\ resp.body.data[2].v > resp.body.data[1].v

\* the distance of sample k's current to the knee threshold of the material
KneeDistance(k) ==
    FAbs(FSub(resp.body.data[k].i,
              IF ReqMaterial = "Ge" THEN [m |-> 5000, e |-> -7]
              ELSE [m |-> 1000, e |-> -6]))

\* sample idx is the first of the samples nearest to the threshold
FirstNearest(idx) ==
    /\ \A j \in 1..300 : FLe(KneeDistance(idx), KneeDistance(j))
    /\ \A j \in 1..(idx - 1) : FLt(KneeDistance(idx), KneeDistance(j))

\* C5: the saddle of a sweep is the sample whose current is nearest to the
\* threshold (0.0005 for Ge, 0.001 otherwise), the first such sample when
\* several are equally near; its v and i are that sample's.
C5_Saddle ==
    SweepOk => \E idx \in 1..300 :
                  /\ resp.body.saddle.v = resp.body.data[idx].v
                  /\ resp.body.saddle.i = resp.body.data[idx].i
                  /\ FirstNearest(idx)

C5_Witness ==
    /\ SweepOk /\ ReqMaterial = "Ge"
    /\ resp.body.saddle.v = resp.body.data[1].v
    /\ resp.body.data[300].v # resp.body.data[1].v
    /\ KneeDistance(300) = KneeDistance(1)

\* C6: measure reports OPTIMAL exactly when |power| <= limit, the limit
\* being 0.05 for the LEDs and 0.5 otherwise, power being voltage times the
\* noisy current; measure(Zener, 27, -6) is BURNT whatever the noise.
C6_Status ==
    MeasureOk =>
        /\ resp.body.power = FMul(FromRat(resp.body.voltage, 1, -3), resp.body.current)
        /\ resp.body.status \in {"OPTIMAL", "BURNT (Overheat)"}
        /\ resp.body.status = "OPTIMAL" <=>
              FLe(FAbs(resp.body.power),
                  IF ReqMaterial \in {"RedLED", "BlueLED"}
                  THEN [m |-> 5000, e |-> -5] ELSE [m |-> 5000, e |-> -4])
        /\ (ReqMaterial = "Zener" /\ ReqTemp.val = 27000 /\ ReqVoltage.val = -6000)
              => resp.body.status = "BURNT (Overheat)"

C6_Witness ==
    /\ MeasureOk /\ ReqMaterial = "RedLED"
    /\ resp.body.status = "BURNT (Overheat)"
    /\ FLe(FAbs(resp.body.power), [m |-> 5000, e |-> -4])

\* the exact voltage of sample k of the handled sweep, in mV times 299
SampleNum(k) == 299 * ReqStart.val + (k - 1) * (ReqEnd.val - ReqStart.val)

\* -slope * (|v| - |breakdown|) at sample k, slope 0.5 for Zener, else 10
LinearBranch(k) ==
    FromRat(-(IF ReqMaterial = "Zener" THEN 5 ELSE 100)
               * (IAbs(SampleNum(k)) - IAbs(resp.body.breakdown) * 299),
            2990, -3)

\* within 1e-9 of each other
Close(a, b) == FLe(FAbs(FSub(a, b)), [m |-> 1000, e |-> -12])

\* C7 as stated: at every voltage at or below the breakdown voltage the
\* current is the linear breakdown value, 0 at the breakdown voltage itself.
C7_Original ==
    SweepOk => \A k \in 1..300 :
                  SampleNum(k) <= 299 * resp.body.breakdown
                      => Close(resp.body.data[k].i, LinearBranch(k))

\* C7 amended: at every voltage strictly below the breakdown voltage the
\* current is the linear breakdown value; at the breakdown voltage itself it
\* is the Shockley value, minus the saturation current.
C7_BreakdownBranch ==
    SweepOk => \A k \in 1..300 :
                  /\ SampleNum(k) < 299 * resp.body.breakdown
                        => resp.body.data[k].i = LinearBranch(k)
                  /\ SampleNum(k) = 299 * resp.body.breakdown
                        => resp.body.data[k].i = FNeg(resp.body.saturation)

C7_Witness ==
    /\ SweepOk
    /\ \E k \in 1..300 :
          /\ SampleNum(k) = 299 * resp.body.breakdown
          /\ resp.body.data[k].i = FNeg(resp.body.saturation)
    /\ \E k \in 1..300 :
          /\ SampleNum(k) < 299 * resp.body.breakdown
          /\ resp.body.data[k].i.m < 0

\* C8: under every interleaving the slot holds the value of the latest
\* store once no start_mystery is between choosing and storing, and the
\* "actual" a submit_guess has returned is a value the slot held at some
\* moment of that call.
C8_LastWriterWins ==
    /\ (\A t \in Callers : th[t].pc # "sm_store") => current_mystery = lastWrite
    /\ \A t \in Callers :
          (th[t].pc = "idle" /\ th[t].ret.result # "")
              => th[t].ret.actual \in th[t].seen

C8_Witness ==
    /\ \A t \in Callers : th[t].pc = "idle"
    /\ \E t \in Callers :
          /\ th[t].ret.result = "CORRECT"
          /\ th[t].ret.actual # th[t].guess
          /\ Cardinality(th[t].seen) = 3

\* C9: a measure or sweep with a non-numeric temp, voltage, start or end
\* is answered with a structured InvalidInput failure, not an exception
\* leaving the handler.
C9_InvalidInput ==
    ((Handled("measure") \/ Handled("sweep")) /\ ~AllNumeric)
        => IsFailure(resp, "InvalidInput")

\* C10: the slot is unset or one of the five materials; only start_mystery
\* changes it, and to one of the five; submit_guess, measure and sweep leave
\* it as it is; once set it is never unset again.
C10_SlotFrame ==
    [][/\ current_mystery \in Materials \cup {PyNone}
       /\ current_mystery' \in Materials \cup {PyNone}
       /\ current_mystery' # current_mystery
             => req.op = "start_mystery" /\ current_mystery' \in Materials
       /\ req.op \in {"submit_guess", "measure", "sweep"}
             => current_mystery' = current_mystery
       /\ current_mystery # PyNone => current_mystery' # PyNone]_vars

C10_Witness ==
    /\ current_mystery \in Materials
    /\ Handled("sweep") /\ resp.code = 500

====
